---- MODULE Spec2Model ----
(***************************************************************************)
(* HealthVault (src/app.py): a Flask + SQLAlchemy/SQLite CRUD application  *)
(* over four tables (patients, visits, medications, allergies).            *)
(*                                                                         *)
(* The state is the content of the four tables plus the last HTTP request  *)
(* and the response it received.  Every route handler of app.py is one     *)
(* action.  Spec is any sequence of the eleven handlers; SpecDirectory,    *)
(* SpecForms and SpecVisits run the same handlers on other workloads (more *)
(* patient forms, more forms of every kind, more visits a patient); the    *)
(* specification SpecThreads runs the handlers statement by statement in   *)
(* two server threads.                                                     *)
(*                                                                         *)
(* Text is modelled as a sequence of one-character strings, so that        *)
(* str.strip(), truthiness and strptime are computed and not assumed.      *)
(* A Python Optional is a sequence of length 0 (None) or 1 (the value).    *)
(***************************************************************************)
EXTENDS Integers, Sequences, FiniteSets, TLC

VARIABLES patients, visits, medications, allergies, request, response, threads

store == <<patients, visits, medications, allergies>>
vars == <<patients, visits, medications, allergies, request, response, threads>>

(***************************************************************************)
(* Bounds of the model: the largest row id of the patients table (of the   *)
(* specification SpecForms, which submits more forms: MaxFormPatientId),   *)
(* the largest row id of a child table, the largest number of child rows   *)
(* in the database, and the largest row id of the visits table in the      *)
(* specification SpecVisits, which has no other child rows.                *)
(***************************************************************************)
MaxPatientId == 2
MaxFormPatientId == 1
MaxChildId == 1
MaxChildren == 1
MaxVisitId == 2

PatientIds == 1..MaxPatientId
FormPatientIds == 1..MaxFormPatientId
ChildIds == 1..MaxChildId
VisitIds == 1..MaxVisitId

(***************************************************************************)
(* Python values                                                           *)
(***************************************************************************)
None == <<>>
Some(v) == <<v>>

\* Python truthiness of an Optional[str]: None and "" are falsy.
Truthy(opt) == opt # None /\ opt[1] # <<>>

\* request.form.get(key, default): the submitted text, or the default.
FormGet(opt, default) == IF opt = None THEN default ELSE opt[1]

\* The bug of storing the submitted text as it is, "" included.
KeepText(opt) == opt

\* `x or None` for an Optional[str] x.
OrNone(opt) == IF Truthy(opt) THEN opt ELSE None

IsSpace(c) == c = " "

RECURSIVE lstrip(_)
lstrip(s) ==
  IF s = <<>> THEN <<>>
  ELSE IF IsSpace(Head(s)) THEN lstrip(Tail(s)) ELSE s

RECURSIVE rstrip(_)
rstrip(s) ==
  IF s = <<>> THEN <<>>
  ELSE IF IsSpace(s[Len(s)]) THEN rstrip(SubSeq(s, 1, Len(s) - 1)) ELSE s

\* str.strip()
strip(s) == rstrip(lstrip(s))

(***************************************************************************)
(* Character codes (the ASCII order of the characters the model uses) and  *)
(* the bytewise comparison of SQLite's default BINARY collation.           *)
(***************************************************************************)
Alphabet ==
  <<" ", "-", "/", "0", "1", "2", "3", "4", "5", "6", "7", "8", "9",
    "A", "B", "C", "D", "E", "F", "G", "H", "I", "J", "K", "L", "M",
    "N", "O", "P", "Q", "R", "S", "T", "U", "V", "W", "X", "Y", "Z",
    "a", "b", "c", "d", "e", "f", "g", "h", "i", "j", "k", "l", "m",
    "n", "o", "p", "q", "r", "s", "t", "u", "v", "w", "x", "y", "z">>

Ord(c) == CHOOSE i \in 1..Len(Alphabet) : Alphabet[i] = c

RECURSIVE StrLess(_, _)
StrLess(a, b) ==
  IF b = <<>> THEN FALSE
  ELSE IF a = <<>> THEN TRUE
  ELSE IF Ord(Head(a)) < Ord(Head(b)) THEN TRUE
  ELSE IF Ord(Head(a)) > Ord(Head(b)) THEN FALSE
  ELSE StrLess(Tail(a), Tail(b))

(***************************************************************************)
(* parse_date: datetime.strptime(value, "%Y-%m-%d").date(), None when the  *)
(* text is empty or strptime raises ValueError.  A date is <<y, m, d>>.    *)
(***************************************************************************)
Digits == {"0", "1", "2", "3", "4", "5", "6", "7", "8", "9"}

DigitValue(c) == Ord(c) - Ord("0")

AllDigits(s) == \A i \in 1..Len(s) : s[i] \in Digits

RECURSIVE Number(_)
Number(s) ==
  IF s = <<>> THEN 0
  ELSE 10 * Number(SubSeq(s, 1, Len(s) - 1)) + DigitValue(s[Len(s)])

\* The pieces of s between the "-" separators.
RECURSIVE Split(_, _)
Split(s, cur) ==
  IF s = <<>> THEN <<cur>>
  ELSE IF Head(s) = "-" THEN <<cur>> \o Split(Tail(s), <<>>)
  ELSE Split(Tail(s), Append(cur, Head(s)))

IsLeap(y) == (y % 4 = 0 /\ y % 100 # 0) \/ y % 400 = 0

DaysInMonth(y, m) ==
  IF m = 2 THEN (IF IsLeap(y) THEN 29 ELSE 28)
  ELSE IF m \in {4, 6, 9, 11} THEN 30 ELSE 31

\* %Y is four digits; %m and %d are one or two digits (%d also " " and a digit).
YearOk(p) == Len(p) = 4 /\ AllDigits(p)
MonthOk(p) == Len(p) \in {1, 2} /\ AllDigits(p) /\ Number(p) \in 1..12
DayText(p) == IF Len(p) = 2 /\ p[1] = " " THEN Tail(p) ELSE p
DayOk(p) ==
  /\ Len(p) \in {1, 2}
  /\ AllDigits(DayText(p))
  /\ Number(DayText(p)) \in 1..31
  /\ (Len(p) = 2 /\ p[1] = " ") => p[2] # "0"

strptime(value) ==
  LET parts == Split(value, <<>>) IN
    IF /\ Len(parts) = 3
       /\ YearOk(parts[1]) /\ MonthOk(parts[2]) /\ DayOk(parts[3])
       /\ Number(parts[1]) >= 1
       /\ Number(DayText(parts[3])) <= DaysInMonth(Number(parts[1]), Number(parts[2]))
    THEN Some(<<Number(parts[1]), Number(parts[2]), Number(DayText(parts[3]))>>)
    ELSE None

parse_date(value) ==
  IF value = <<>> THEN None ELSE strptime(value)

\* date.__lt__
DateLess(a, b) ==
  \/ a[1] < b[1]
  \/ a[1] = b[1] /\ a[2] < b[2]
  \/ a[1] = b[1] /\ a[2] = b[2] /\ a[3] < b[3]


(***************************************************************************)
(* The texts the clients submit (a bound of the model: a handful of forms  *)
(* per route, chosen to contain blank, whitespace-only, missing, padded,   *)
(* unparseable and well-formed fields).  The specification Spec, which     *)
(* explores the most rows, submits the shorter lists PatientPosts,         *)
(* VisitPosts, MedicationPosts and AllergyPosts: one form that is stored   *)
(* and the forms that the validation refuses.                              *)
(***************************************************************************)
Empty == <<>>
Blank == <<" ">>
Ada == <<"A", "d", "a">>
Marie == <<"M", "a", "r", "i", "e">>
MariePadded == <<" ", "M", "a", "r", "i", "e", " ">>
Curie == <<"C", "u", "r", "i", "e">>
CurieLower == <<"c", "u", "r", "i", "e">>
Lovelace == <<"L", "o", "v", "e", "l", "a", "c", "e">>
Dob1815 == <<"1", "8", "1", "5", "-", "1", "2", "-", "1", "0">>
Feb30 == <<"1", "8", "1", "5", "-", "0", "2", "-", "3", "0">>
Slashed == <<"1", "2", "/", "1", "0", "/", "1", "8", "1", "5">>
Jan2024 == <<"2", "0", "2", "4", "-", "0", "1", "-", "0", "5">>
Dec2023 == <<"2", "0", "2", "3", "-", "1", "2", "-", "3", "1">>
Female == <<"F">>
Phone == <<"5", "5", "5">>
Flu == <<"F", "l", "u">>
Care == <<"C", "a", "r", "e">>
Codeine == <<"C", "o", "d", "e", "i", "n", "e">>
CodeinePadded == <<" ", "C", "o", "d", "e", "i", "n", "e">>
Dose == <<"5">>
Daily == <<"d", "a", "i", "l", "y">>
Latex == <<"L", "a", "t", "e", "x">>
Mild == <<"M", "i", "l", "d">>

PatientForm(f, l, d, s, p) ==
  [first_name |-> f, last_name |-> l, date_of_birth |-> d, sex |-> s, phone |-> p]

PatientForms ==
  { PatientForm(Some(Ada), Some(Lovelace), Some(Dob1815), Some(Female), Some(Phone)),
    PatientForm(Some(MariePadded), Some(Curie), Some(Empty), Some(Empty), None),
    PatientForm(Some(Blank), None, Some(Feb30), None, Some(Empty)) }

DirectoryForms ==
  PatientForms
    \cup { PatientForm(Some(Empty), Some(Curie), Some(Slashed), Some(Empty), Some(Empty)),
           PatientForm(Some(Marie), Some(CurieLower), None, None, None) }

PatientPosts ==
  { PatientForm(Some(Ada), Some(Lovelace), Some(Dob1815), Some(Female), Some(Phone)),
    PatientForm(Some(Blank), None, Some(Dob1815), Some(Female), Some(Phone)),
    PatientForm(Some(Empty), Some(Lovelace), Some(Dob1815), Some(Female), Some(Phone)),
    PatientForm(Some(Ada), Some(Blank), Some(Dob1815), Some(Female), Some(Phone)) }

VisitForm(d, r, n) == [visit_date |-> d, reason |-> r, notes |-> n]

VisitForms ==
  { VisitForm(Some(Jan2024), Some(Flu), Some(Care)),
    VisitForm(Some(Dec2023), Some(Empty), None),
    VisitForm(Some(Empty), Some(Empty), Some(Empty)) }

VisitPosts == { VisitForm(Some(Empty), Some(Empty), Some(Empty)) }

MedicationForm(n, d, f) == [name |-> n, dosage |-> d, frequency |-> f]

MedicationForms ==
  { MedicationForm(Some(CodeinePadded), Some(Dose), Some(Daily)),
    MedicationForm(Some(Codeine), Some(Empty), None),
    MedicationForm(Some(Blank), Some(Dose), Some(Daily)),
    MedicationForm(None, Some(Empty), Some(Empty)) }

MedicationPosts ==
  { MedicationForm(Some(Codeine), Some(Empty), None),
    MedicationForm(Some(Blank), Some(Dose), Some(Daily)),
    MedicationForm(None, Some(Empty), Some(Empty)) }

AllergyForm(a, r, s) == [allergen |-> a, reaction |-> r, severity |-> s]

AllergyForms ==
  { AllergyForm(Some(Latex), Some(Flu), Some(Mild)),
    AllergyForm(Some(Latex), None, Some(Empty)),
    AllergyForm(Some(Blank), Some(Flu), Some(Mild)),
    AllergyForm(Some(Empty), Some(Empty), Some(Empty)) }

AllergyPosts ==
  { AllergyForm(Some(Latex), None, Some(Empty)),
    AllergyForm(Some(Blank), Some(Flu), Some(Mild)),
    AllergyForm(Some(Empty), Some(Empty), Some(Empty)) }

NoForm == [empty |-> TRUE]

(***************************************************************************)
(* The tables.  A table is a function from the ids of its rows to rows.    *)
(***************************************************************************)
Patient(first_name, last_name, date_of_birth, sex, phone) ==
  [first_name |-> first_name, last_name |-> last_name,
   date_of_birth |-> date_of_birth, sex |-> sex, phone |-> phone]

Visit(patient_id, visit_date, reason, notes) ==
  [patient_id |-> patient_id, visit_date |-> visit_date, reason |-> reason, notes |-> notes]

Medication(patient_id, name, dosage, frequency) ==
  [patient_id |-> patient_id, name |-> name, dosage |-> dosage, frequency |-> frequency]

Allergy(patient_id, allergen, reaction, severity) ==
  [patient_id |-> patient_id, allergen |-> allergen, reaction |-> reaction, severity |-> severity]

Max(S) == CHOOSE m \in S : \A x \in S : x <= m

\* An INTEGER PRIMARY KEY column without AUTOINCREMENT: SQLite gives a new row
\* the largest id in use plus one, and 1 in an empty table.
NextId(table) == IF DOMAIN table = {} THEN 1 ELSE Max(DOMAIN table) + 1

\* db.session.add(row); db.session.commit()
Insert(table, id, row) ==
  [i \in DOMAIN table \cup {id} |-> IF i = id THEN row ELSE table[i]]

\* db.session.delete(row); db.session.commit()
Delete(table, id) == [i \in DOMAIN table \ {id} |-> table[i]]

\* The rows of a child table that the relationship of patient_id loads.
ChildrenOf(table, patient_id) == {i \in DOMAIN table : table[i].patient_id = patient_id}

\* The bug of a relationship without the cascade: the children stay.
NoCascade(table, patient_id) == table

\* The bug of a cascade that is not limited to the patient's own children.
CascadeAll(table, patient_id) == <<>>

\* cascade="all, delete-orphan": the children go with their patient.
Cascade(table, patient_id) ==
  [i \in DOMAIN table \ ChildrenOf(table, patient_id) |-> table[i]]

\* Query.get_or_404(id): whether the row is there (else abort(404)).
get_or_404(table, id) == id \in DOMAIN table

(***************************************************************************)
(* Requests and responses                                                  *)
(***************************************************************************)
Request(handler, method, patient_id, child_id, form) ==
  [handler |-> handler, method |-> method, patient_id |-> patient_id,
   child_id |-> child_id, form |-> form]

NoLocation == [endpoint |-> "", patient_id |-> 0]

NoBody ==
  [template |-> "", patient |-> 0, patients |-> <<>>, visits |-> <<>>,
   medications |-> <<>>, allergies |-> <<>>]

\* redirect(url_for(endpoint, patient_id=...)), after an optional flash(message)
redirect(endpoint, patient_id, message) ==
  [status |-> 302, location |-> [endpoint |-> endpoint, patient_id |-> patient_id],
   flash |-> message, body |-> NoBody]

\* abort(404)
NotFound == [status |-> 404, location |-> NoLocation, flash |-> "", body |-> NoBody]

\* An exception that leaves the handler: Flask answers 500.
ServerError == [status |-> 500, location |-> NoLocation, flash |-> "", body |-> NoBody]

\* The layout every page extends, {% extends "base" %}, is not among the
\* sources; the pages are taken to find it.
BaseLayoutLoads == TRUE

render_template_string(body) ==
  IF BaseLayoutLoads
  THEN [status |-> 200, location |-> NoLocation, flash |-> "", body |-> body]
  ELSE ServerError


(***************************************************************************)
(* What the pages list                                                     *)
(***************************************************************************)
\* The sequences that hold every element of S exactly once.
Orderings(S) ==
  {p \in [1..Cardinality(S) -> S] : \A i, j \in 1..Cardinality(S) : p[i] = p[j] => i = j}

\* The bug of ordering by first name before last name.
FirstNameBefore(a, b) ==
  \/ StrLess(a.first_name, b.first_name)
  \/ a.first_name = b.first_name /\ StrLess(a.last_name, b.last_name)

\* ORDER BY last_name, first_name: a row may not come before a row that
\* sorts before it; rows with equal names come in any order.
NameBefore(a, b) ==
  \/ StrLess(a.last_name, b.last_name)
  \/ a.last_name = b.last_name /\ StrLess(a.first_name, b.first_name)

\* Patient.query.order_by(Patient.last_name, Patient.first_name).all()
order_by(table) ==
  {p \in Orderings(DOMAIN table) :
     \A i, j \in 1..Len(p) : i < j => ~NameBefore(table[p[j]], table[p[i]])}

\* The ids of S in ascending order (the order a relationship loads its rows in).
RECURSIVE Ascending(_)
Ascending(S) ==
  IF S = {} THEN <<>>
  ELSE LET m == Max(S) IN Append(Ascending(S \ {m}), m)

\* The comparison of two sort keys raises TypeError when either is None.
Comparable(a, b) == a # None /\ b # None

\* sorted(..., reverse=True) compares every element with another one as soon
\* as there are two, so it raises when any of two or more keys is None.
SortRaises(table, ids) ==
  \E i, j \in 1..Len(ids) :
    i # j /\ ~Comparable(table[ids[i]].visit_date, table[ids[j]].visit_date)

\* The stable descending sort: an element goes after the elements whose key
\* is not smaller than its own.
RECURSIVE InsertDescending(_, _, _)
InsertDescending(table, sorted, id) ==
  IF sorted = <<>> THEN <<id>>
  ELSE IF DateLess(table[Head(sorted)].visit_date[1], table[id].visit_date[1])
       THEN <<id>> \o sorted
       ELSE <<Head(sorted)>> \o InsertDescending(table, Tail(sorted), id)

RECURSIVE SortDescending(_, _, _)
SortDescending(table, ids, sorted) ==
  IF ids = <<>> THEN sorted
  ELSE SortDescending(table, Tail(ids), InsertDescending(table, sorted, Head(ids)))

\* patient.visits|sort(attribute='visit_date', reverse=True)
sort_visits(table, ids) == SortDescending(table, ids, <<>>)

\* render_template_string(PATIENT_DETAIL_HTML, patient=patient)
PatientDetailPage(patient_id) ==
  LET loaded == Ascending(ChildrenOf(visits, patient_id)) IN
    IF SortRaises(visits, loaded) THEN ServerError
    ELSE render_template_string(
           [template |-> "PATIENT_DETAIL_HTML", patient |-> patient_id, patients |-> <<>>,
            visits |-> sort_visits(visits, loaded),
            medications |-> Ascending(ChildrenOf(medications, patient_id)),
            allergies |-> Ascending(ChildrenOf(allergies, patient_id))])

\* render_template_string(PATIENT_FORM_HTML, patient=...): 0 stands for None.
PatientFormPage(patient_id) ==
  render_template_string([NoBody EXCEPT !.template = "PATIENT_FORM_HTML", !.patient = patient_id])

\* render_template_string(INDEX_HTML, patients=patients)
IndexPage(listing) ==
  render_template_string([NoBody EXCEPT !.template = "INDEX_HTML", !.patients = listing])


(***************************************************************************)
(* The route handlers, one request at a time                               *)
(***************************************************************************)
\* The bug of refusing a patient only when both names are missing.
BothNamesMissing(first_name, last_name) == first_name = <<>> /\ last_name = <<>>

\* `not first_name or not last_name`
NamesMissing(first_name, last_name) == first_name = <<>> \/ last_name = <<>>

\* The bug of an edit that stores the trimmed text even when it is empty.
StripOnly(opt, stored) == strip(FormGet(opt, <<>>))

\* `request.form.get(key, "").strip() or stored`
StripOr(opt, stored) ==
  IF strip(FormGet(opt, <<>>)) # <<>> THEN strip(FormGet(opt, <<>>)) ELSE stored

\* `parse_date(request.form.get("date_of_birth", "")) or stored`
ParseOr(opt, stored) ==
  IF parse_date(FormGet(opt, <<>>)) # None THEN parse_date(FormGet(opt, <<>>)) ELSE stored

\* The bug of a delete that does not compare the owner with the path.
AnyOwner(child, patient_id) == TRUE

\* `if child.patient_id != patient_id: abort(404)`
OwnedBy(child, patient_id) == child.patient_id = patient_id

index ==
  /\ request' = Request("index", "GET", 0, 0, NoForm)
  /\ \E listing \in order_by(patients) : response' = IndexPage(listing)
  /\ UNCHANGED <<store, threads>>

new_patient(method, form) ==
  /\ request' = Request("new_patient", method, 0, 0, form)
  /\ UNCHANGED threads
  /\ IF method = "POST"
     THEN LET first_name == strip(FormGet(form.first_name, <<>>))
              last_name == strip(FormGet(form.last_name, <<>>))
              id == NextId(patients)
          IN IF NamesMissing(first_name, last_name)
             THEN /\ response' = redirect("new_patient", 0, "First and last name are required")
                  /\ UNCHANGED store
             ELSE /\ patients' = Insert(patients, id,
                                   Patient(first_name, last_name,
                                           parse_date(FormGet(form.date_of_birth, <<>>)),
                                           OrNone(form.sex), OrNone(form.phone)))
                  /\ response' = redirect("patient_detail", id, "")
                  /\ UNCHANGED <<visits, medications, allergies>>
     ELSE /\ response' = PatientFormPage(0)
          /\ UNCHANGED store

edit_patient(patient_id, method, form) ==
  /\ request' = Request("edit_patient", method, patient_id, 0, form)
  /\ UNCHANGED threads
  /\ IF ~get_or_404(patients, patient_id)
     THEN /\ response' = NotFound
          /\ UNCHANGED store
     ELSE IF method = "POST"
     THEN LET patient == patients[patient_id] IN
          /\ patients' = [patients EXCEPT ![patient_id] =
                            Patient(StripOr(form.first_name, patient.first_name),
                                    StripOr(form.last_name, patient.last_name),
                                    ParseOr(form.date_of_birth, patient.date_of_birth),
                                    OrNone(form.sex), OrNone(form.phone))]
          /\ response' = redirect("patient_detail", patient_id, "")
          /\ UNCHANGED <<visits, medications, allergies>>
     ELSE /\ response' = PatientFormPage(patient_id)
          /\ UNCHANGED store

patient_detail(patient_id) ==
  /\ request' = Request("patient_detail", "GET", patient_id, 0, NoForm)
  /\ response' = IF get_or_404(patients, patient_id)
                 THEN PatientDetailPage(patient_id) ELSE NotFound
  /\ UNCHANGED <<store, threads>>

delete_patient(patient_id) ==
  /\ request' = Request("delete_patient", "POST", patient_id, 0, NoForm)
  /\ UNCHANGED threads
  /\ IF ~get_or_404(patients, patient_id)
     THEN /\ response' = NotFound
          /\ UNCHANGED store
     ELSE /\ patients' = Delete(patients, patient_id)
          /\ visits' = Cascade(visits, patient_id)
          /\ medications' = Cascade(medications, patient_id)
          /\ allergies' = Cascade(allergies, patient_id)
          /\ response' = redirect("index", 0, "")

\* The bug of adding a visit without looking the patient up.
add_visit_unchecked(patient_id, form) ==
  /\ request' = Request("add_visit", "POST", patient_id, 0, form)
  /\ UNCHANGED threads
  /\ visits' = Insert(visits, NextId(visits),
                 Visit(patient_id, parse_date(FormGet(form.visit_date, <<>>)),
                       OrNone(form.reason), OrNone(form.notes)))
  /\ response' = redirect("patient_detail", patient_id, "")
  /\ UNCHANGED <<patients, medications, allergies>>

add_visit(patient_id, form) ==
  /\ request' = Request("add_visit", "POST", patient_id, 0, form)
  /\ UNCHANGED threads
  /\ IF ~get_or_404(patients, patient_id)
     THEN /\ response' = NotFound
          /\ UNCHANGED store
     ELSE LET id == NextId(visits) IN
          /\ visits' = Insert(visits, id,
                         Visit(patient_id, parse_date(FormGet(form.visit_date, <<>>)),
                               OrNone(form.reason), OrNone(form.notes)))
          /\ response' = redirect("patient_detail", patient_id, "")
          /\ UNCHANGED <<patients, medications, allergies>>

delete_visit(patient_id, visit_id) ==
  /\ request' = Request("delete_visit", "POST", patient_id, visit_id, NoForm)
  /\ UNCHANGED threads
  /\ IF \/ ~get_or_404(patients, patient_id)
        \/ ~get_or_404(visits, visit_id)
        \/ ~OwnedBy(visits[visit_id], patient_id)
     THEN /\ response' = NotFound
          /\ UNCHANGED store
     ELSE /\ visits' = Delete(visits, visit_id)
          /\ response' = redirect("patient_detail", patient_id, "")
          /\ UNCHANGED <<patients, medications, allergies>>

add_medication(patient_id, form) ==
  /\ request' = Request("add_medication", "POST", patient_id, 0, form)
  /\ UNCHANGED threads
  /\ IF ~get_or_404(patients, patient_id)
     THEN /\ response' = NotFound
          /\ UNCHANGED store
     ELSE LET name == strip(FormGet(form.name, <<>>))
              id == NextId(medications)
          IN IF name = <<>>
             THEN /\ response' = redirect("patient_detail", patient_id, "Medication name is required")
                  /\ UNCHANGED store
             ELSE /\ medications' = Insert(medications, id,
                                      Medication(patient_id, name,
                                                 OrNone(form.dosage), OrNone(form.frequency)))
                  /\ response' = redirect("patient_detail", patient_id, "")
                  /\ UNCHANGED <<patients, visits, allergies>>

delete_medication(patient_id, medication_id) ==
  /\ request' = Request("delete_medication", "POST", patient_id, medication_id, NoForm)
  /\ UNCHANGED threads
  /\ IF \/ ~get_or_404(patients, patient_id)
        \/ ~get_or_404(medications, medication_id)
        \/ ~OwnedBy(medications[medication_id], patient_id)
     THEN /\ response' = NotFound
          /\ UNCHANGED store
     ELSE /\ medications' = Delete(medications, medication_id)
          /\ response' = redirect("patient_detail", patient_id, "")
          /\ UNCHANGED <<patients, visits, allergies>>

add_allergy(patient_id, form) ==
  /\ request' = Request("add_allergy", "POST", patient_id, 0, form)
  /\ UNCHANGED threads
  /\ IF ~get_or_404(patients, patient_id)
     THEN /\ response' = NotFound
          /\ UNCHANGED store
     ELSE LET allergen == strip(FormGet(form.allergen, <<>>))
              id == NextId(allergies)
          IN IF allergen = <<>>
             THEN /\ response' = redirect("patient_detail", patient_id, "Allergen is required")
                  /\ UNCHANGED store
             ELSE /\ allergies' = Insert(allergies, id,
                                    Allergy(patient_id, allergen,
                                            OrNone(form.reaction), OrNone(form.severity)))
                  /\ response' = redirect("patient_detail", patient_id, "")
                  /\ UNCHANGED <<patients, visits, medications>>

delete_allergy(patient_id, allergy_id) ==
  /\ request' = Request("delete_allergy", "POST", patient_id, allergy_id, NoForm)
  /\ UNCHANGED threads
  /\ IF \/ ~get_or_404(patients, patient_id)
        \/ ~get_or_404(allergies, allergy_id)
        \/ ~OwnedBy(allergies[allergy_id], patient_id)
     THEN /\ response' = NotFound
          /\ UNCHANGED store
     ELSE /\ allergies' = Delete(allergies, allergy_id)
          /\ response' = redirect("patient_detail", patient_id, "")
          /\ UNCHANGED <<patients, visits, medications>>

(***************************************************************************)
(* The serial specification: db.create_all() on an empty database, then    *)
(* whole requests one after another.                                       *)
(***************************************************************************)
EmptyTable == <<>>

NoRequest == Request("", "", 0, 0, NoForm)

NoResponse == [status |-> 0, location |-> NoLocation, flash |-> "", body |-> NoBody]

Idle == <<>>

Init ==
  /\ patients = EmptyTable
  /\ visits = EmptyTable
  /\ medications = EmptyTable
  /\ allergies = EmptyTable
  /\ request = NoRequest
  /\ response = NoResponse
  /\ threads = Idle

\* The part of the state space a specification explores: the row ids of the
\* four tables and the number of child rows.
Within(patient_ids, visit_ids, medication_ids, allergy_ids, children) ==
  /\ DOMAIN patients \subseteq patient_ids
  /\ DOMAIN visits \subseteq visit_ids
  /\ DOMAIN medications \subseteq medication_ids
  /\ DOMAIN allergies \subseteq allergy_ids
  /\ Cardinality(DOMAIN visits) + Cardinality(DOMAIN medications)
       + Cardinality(DOMAIN allergies) <= children

Bounded == Within(PatientIds, ChildIds, ChildIds, ChildIds, MaxChildren)

\* The requests the clients send: any sequence of the eleven handlers.
Next ==
  \/ index /\ Bounded'
  \/ new_patient("GET", NoForm) /\ Bounded'
  \/ \E form \in PatientPosts : new_patient("POST", form) /\ Bounded'
  \/ \E patient_id \in PatientIds : edit_patient(patient_id, "GET", NoForm) /\ Bounded'
  \/ \E patient_id \in PatientIds, form \in PatientPosts :
       edit_patient(patient_id, "POST", form) /\ Bounded'
  \/ \E patient_id \in PatientIds : patient_detail(patient_id) /\ Bounded'
  \/ \E patient_id \in PatientIds : delete_patient(patient_id) /\ Bounded'
  \/ \E patient_id \in PatientIds, form \in VisitPosts :
       add_visit(patient_id, form) /\ Bounded'
  \/ \E patient_id \in PatientIds, visit_id \in ChildIds :
       delete_visit(patient_id, visit_id) /\ Bounded'
  \/ \E patient_id \in PatientIds, form \in MedicationPosts :
       add_medication(patient_id, form) /\ Bounded'
  \/ \E patient_id \in PatientIds, medication_id \in ChildIds :
       delete_medication(patient_id, medication_id) /\ Bounded'
  \/ \E patient_id \in PatientIds, form \in AllergyPosts :
       add_allergy(patient_id, form) /\ Bounded'
  \/ \E patient_id \in PatientIds, allergy_id \in ChildIds :
       delete_allergy(patient_id, allergy_id) /\ Bounded'

Spec == Init /\ [][Next]_vars

(***************************************************************************)
(* The patient directory: the five routes of the patients table, with the  *)
(* longer list of patient forms.                                           *)
(***************************************************************************)
NextDirectory ==
  \/ index /\ Bounded'
  \/ new_patient("GET", NoForm) /\ Bounded'
  \/ \E form \in DirectoryForms : new_patient("POST", form) /\ Bounded'
  \/ \E patient_id \in PatientIds : edit_patient(patient_id, "GET", NoForm) /\ Bounded'
  \/ \E patient_id \in PatientIds, form \in DirectoryForms :
       edit_patient(patient_id, "POST", form) /\ Bounded'
  \/ \E patient_id \in PatientIds : patient_detail(patient_id) /\ Bounded'
  \/ \E patient_id \in PatientIds : delete_patient(patient_id) /\ Bounded'

SpecDirectory == Init /\ [][NextDirectory]_vars

(***************************************************************************)
(* The forms: the eleven handlers with the longer lists of forms, over     *)
(* fewer patients.                                                         *)
(***************************************************************************)
BoundedForms == Within(FormPatientIds, ChildIds, ChildIds, ChildIds, MaxChildren)

NextForms ==
  \/ index /\ BoundedForms'
  \/ new_patient("GET", NoForm) /\ BoundedForms'
  \/ \E form \in PatientForms : new_patient("POST", form) /\ BoundedForms'
  \/ \E patient_id \in FormPatientIds :
       edit_patient(patient_id, "GET", NoForm) /\ BoundedForms'
  \/ \E patient_id \in FormPatientIds, form \in PatientForms :
       edit_patient(patient_id, "POST", form) /\ BoundedForms'
  \/ \E patient_id \in FormPatientIds : patient_detail(patient_id) /\ BoundedForms'
  \/ \E patient_id \in FormPatientIds : delete_patient(patient_id) /\ BoundedForms'
  \/ \E patient_id \in FormPatientIds, form \in VisitForms :
       add_visit(patient_id, form) /\ BoundedForms'
  \/ \E patient_id \in FormPatientIds, visit_id \in ChildIds :
       delete_visit(patient_id, visit_id) /\ BoundedForms'
  \/ \E patient_id \in FormPatientIds, form \in MedicationForms :
       add_medication(patient_id, form) /\ BoundedForms'
  \/ \E patient_id \in FormPatientIds, medication_id \in ChildIds :
       delete_medication(patient_id, medication_id) /\ BoundedForms'
  \/ \E patient_id \in FormPatientIds, form \in AllergyForms :
       add_allergy(patient_id, form) /\ BoundedForms'
  \/ \E patient_id \in FormPatientIds, allergy_id \in ChildIds :
       delete_allergy(patient_id, allergy_id) /\ BoundedForms'

SpecForms == Init /\ [][NextForms]_vars

(***************************************************************************)
(* The visits of a patient: the routes that create a patient, add and      *)
(* delete its visits and show its detail page, with more visits a patient. *)
(***************************************************************************)
BoundedVisits == Within(PatientIds, VisitIds, {}, {}, MaxVisitId)

NextVisits ==
  \/ \E form \in PatientPosts : new_patient("POST", form) /\ BoundedVisits'
  \/ \E patient_id \in PatientIds : patient_detail(patient_id) /\ BoundedVisits'
  \/ \E patient_id \in PatientIds : delete_patient(patient_id) /\ BoundedVisits'
  \/ \E patient_id \in PatientIds, form \in VisitForms :
       add_visit(patient_id, form) /\ BoundedVisits'
  \/ \E patient_id \in PatientIds, visit_id \in VisitIds :
       delete_visit(patient_id, visit_id) /\ BoundedVisits'

SpecVisits == Init /\ [][NextVisits]_vars


(***************************************************************************)
(* Properties of the serial specifications                                 *)
(***************************************************************************)
\* The text of a form field is empty once trimmed (a missing field reads as "").
BlankAfterTrim(opt) == strip(FormGet(opt, <<>>)) = <<>>

\* The field was left blank: nothing, or the empty text, was submitted.
LeftBlank(opt) == FormGet(opt, <<>>) = <<>>

\* The child table a delete route works on, and the handlers that name a patient.
ChildDeletes == {"delete_visit", "delete_medication", "delete_allergy"}

ChildOwner(handler, child_id) ==
  IF handler = "delete_visit"
  THEN (IF child_id \in DOMAIN visits THEN visits[child_id].patient_id ELSE 0)
  ELSE IF handler = "delete_medication"
  THEN (IF child_id \in DOMAIN medications THEN medications[child_id].patient_id ELSE 0)
  ELSE (IF child_id \in DOMAIN allergies THEN allergies[child_id].patient_id ELSE 0)

PatientRoutes ==
  {"edit_patient", "patient_detail", "delete_patient", "add_visit", "add_medication",
   "add_allergy", "delete_visit", "delete_medication", "delete_allergy"}

\* The rows of a child table that belong to other patients than patient_id.
OthersRows(table, patient_id) ==
  [i \in {j \in DOMAIN table : table[j].patient_id # patient_id} |-> table[i]]

\* C1: in every reachable state every visit, medication and allergy carries the
\* id of a stored patient: there is no orphaned child row.
C1_NoOrphans ==
  /\ \A i \in DOMAIN visits : visits[i].patient_id \in DOMAIN patients
  /\ \A i \in DOMAIN medications : medications[i].patient_id \in DOMAIN patients
  /\ \A i \in DOMAIN allergies : allergies[i].patient_id \in DOMAIN patients

\* A patient was deleted and a child row of the other patient is still stored
\* after the cascade.
C1_Witness ==
  /\ request.handler = "delete_patient"
  /\ response.status = 302
  /\ DOMAIN patients # {}
  /\ DOMAIN visits \cup DOMAIN medications \cup DOMAIN allergies # {}

\* C2: a child delete through a patient id that is not the child's owner
\* answers not-found and changes nothing, whether or not that patient exists.
C2_CrossPatientDelete ==
  [][(/\ request'.handler \in ChildDeletes
      /\ ChildOwner(request'.handler, request'.child_id) # 0
      /\ ChildOwner(request'.handler, request'.child_id) # request'.patient_id)
     => (response' = NotFound /\ UNCHANGED store)]_vars

\* A delete named an existing patient and an existing child of another
\* patient, and was answered not-found.
C2_Witness ==
  /\ request.handler \in ChildDeletes
  /\ request.patient_id \in DOMAIN patients
  /\ ChildOwner(request.handler, request.child_id) \notin {0, request.patient_id}
  /\ response.status = 404

\* C3: delete_patient of a stored patient removes the patient and exactly the
\* child rows it owns, and a detail fetch of that id right after it answers
\* not-found.
C3_DeleteCascades ==
  [][/\ (request'.handler = "delete_patient" /\ request'.patient_id \in DOMAIN patients)
        => /\ patients' = [i \in DOMAIN patients \ {request'.patient_id} |-> patients[i]]
           /\ visits' = OthersRows(visits, request'.patient_id)
           /\ medications' = OthersRows(medications, request'.patient_id)
           /\ allergies' = OthersRows(allergies, request'.patient_id)
     /\ (/\ request.handler = "delete_patient" /\ response.status = 302
         /\ request'.handler = "patient_detail"
         /\ request'.patient_id = request.patient_id)
        => response' = NotFound]_vars

\* The detail page of a patient answered not-found while a row of another
\* patient is stored: the state after a delete and the fetch that follows it.
C3_Witness ==
  /\ request.handler = "patient_detail"
  /\ response.status = 404
  /\ request.patient_id < MaxPatientId
  /\ \E i \in DOMAIN patients : i > request.patient_id
  /\ DOMAIN visits # {}

\* C4: a validation failure persists nothing and redirects to the view it came
\* from: the creation form for a patient without a first or last name, the
\* patient's detail page for a medication without a name or an allergy without
\* an allergen.
C4_ValidationFailure ==
  [][/\ (/\ request'.handler = "new_patient" /\ request'.method = "POST"
         /\ (BlankAfterTrim(request'.form.first_name) \/ BlankAfterTrim(request'.form.last_name)))
        => /\ UNCHANGED store
           /\ response'.status = 302
           /\ response'.location = [endpoint |-> "new_patient", patient_id |-> 0]
     /\ (/\ request'.handler = "add_medication"
         /\ request'.patient_id \in DOMAIN patients
         /\ BlankAfterTrim(request'.form.name))
        => /\ UNCHANGED store
           /\ response'.status = 302
           /\ response'.location =
                [endpoint |-> "patient_detail", patient_id |-> request'.patient_id]
     /\ (/\ request'.handler = "add_allergy"
         /\ request'.patient_id \in DOMAIN patients
         /\ BlankAfterTrim(request'.form.allergen))
        => /\ UNCHANGED store
           /\ response'.status = 302
           /\ response'.location =
                [endpoint |-> "patient_detail", patient_id |-> request'.patient_id]]_vars

\* A medication whose name is only whitespace was refused with a message.
C4_Witness ==
  /\ request.handler = "add_medication"
  /\ request.form.name = Some(Blank)
  /\ response.status = 302
  /\ response.flash = "Medication name is required"
  /\ DOMAIN medications = {}

\* C5: a request that names a patient id that is not stored, and a child delete
\* that names a child id that is not stored, answer not-found and change
\* nothing.
C5_NotFound ==
  [][/\ (request'.handler \in PatientRoutes /\ request'.patient_id \notin DOMAIN patients)
        => (response' = NotFound /\ UNCHANGED store)
     /\ (request'.handler \in ChildDeletes
         /\ ChildOwner(request'.handler, request'.child_id) = 0)
        => (response' = NotFound /\ UNCHANGED store)]_vars

\* A visit was posted to a patient id that is not stored while another
\* patient is, and was answered not-found.
C5_Witness ==
  /\ request.handler = "add_visit"
  /\ request.patient_id \notin DOMAIN patients
  /\ DOMAIN patients # {}
  /\ response.status = 404


\* C6: an edit of a stored patient keeps the stored first name, last name and
\* date of birth where the submitted one is blank after trimming or does not
\* parse, replaces them otherwise, and leaves both names non-empty.
C6_EditKeepsOrReplaces ==
  [][(/\ request'.handler = "edit_patient" /\ request'.method = "POST"
      /\ request'.patient_id \in DOMAIN patients)
     => LET old == patients[request'.patient_id]
            new == patients'[request'.patient_id]
            form == request'.form
        IN /\ new.first_name = IF BlankAfterTrim(form.first_name) THEN old.first_name
                               ELSE strip(FormGet(form.first_name, <<>>))
           /\ new.last_name = IF BlankAfterTrim(form.last_name) THEN old.last_name
                              ELSE strip(FormGet(form.last_name, <<>>))
           /\ new.date_of_birth =
                IF parse_date(FormGet(form.date_of_birth, <<>>)) = None THEN old.date_of_birth
                ELSE parse_date(FormGet(form.date_of_birth, <<>>))
           /\ new.first_name # <<>>
           /\ new.last_name # <<>>]_vars

\* An edit with a blank last name and a date that does not parse was stored:
\* the patient still has a last name and a date of birth.
C6_Witness ==
  /\ request.handler = "edit_patient"
  /\ request.method = "POST"
  /\ response.status = 302
  /\ BlankAfterTrim(request.form.last_name)
  /\ request.form.date_of_birth = Some(Feb30)
  /\ patients[request.patient_id].last_name = Lovelace
  /\ patients[request.patient_id].date_of_birth = Some(<<1815, 12, 10>>)

\* A submission that was stored: a POST answered by the redirect to the
\* patient's page without a validation message.
Stored(handler) ==
  /\ request'.handler = handler
  /\ request'.method = "POST"
  /\ response'.status = 302
  /\ response'.location.endpoint = "patient_detail"
  /\ response'.flash = ""

AbsentIfBlank(opt, stored) == LeftBlank(opt) => stored = None

\* The optional fields of the rows that add_visit, add_medication, add_allergy
\* and new_patient store, and the sex and phone that edit_patient stores.
BlankIsAbsent ==
  /\ Stored("new_patient")
     => LET new == patients'[response'.location.patient_id] IN
          /\ AbsentIfBlank(request'.form.date_of_birth, new.date_of_birth)
          /\ AbsentIfBlank(request'.form.sex, new.sex)
          /\ AbsentIfBlank(request'.form.phone, new.phone)
  /\ Stored("edit_patient")
     => LET new == patients'[request'.patient_id] IN
          /\ AbsentIfBlank(request'.form.sex, new.sex)
          /\ AbsentIfBlank(request'.form.phone, new.phone)
  /\ Stored("add_visit")
     => /\ DOMAIN visits' # DOMAIN visits
        /\ \A i \in DOMAIN visits' \ DOMAIN visits :
             /\ AbsentIfBlank(request'.form.visit_date, visits'[i].visit_date)
             /\ AbsentIfBlank(request'.form.reason, visits'[i].reason)
             /\ AbsentIfBlank(request'.form.notes, visits'[i].notes)
  /\ Stored("add_medication")
     => /\ DOMAIN medications' # DOMAIN medications
        /\ \A i \in DOMAIN medications' \ DOMAIN medications :
             /\ AbsentIfBlank(request'.form.dosage, medications'[i].dosage)
             /\ AbsentIfBlank(request'.form.frequency, medications'[i].frequency)
  /\ Stored("add_allergy")
     => /\ DOMAIN allergies' # DOMAIN allergies
        /\ \A i \in DOMAIN allergies' \ DOMAIN allergies :
             /\ AbsentIfBlank(request'.form.reaction, allergies'[i].reaction)
             /\ AbsentIfBlank(request'.form.severity, allergies'[i].severity)

\* C7 as stated: after a stored create or patient edit every optional field
\* that was left blank is absent, the date of birth of an edit included.
C7_BlankIsAbsent ==
  [][/\ BlankIsAbsent
     /\ Stored("edit_patient")
        => AbsentIfBlank(request'.form.date_of_birth,
                         patients'[request'.patient_id].date_of_birth)]_vars

\* C7 as amended: after a stored create or patient edit every optional field
\* that was left blank is absent, except the date of birth of an edit, which
\* stays as it was stored.
C7_BlankIsAbsentButEditedDate ==
  [][/\ BlankIsAbsent
     /\ (Stored("edit_patient") /\ LeftBlank(request'.form.date_of_birth))
        => patients'[request'.patient_id].date_of_birth
             = patients[request'.patient_id].date_of_birth]_vars

\* An edit that left date of birth, sex and phone blank was stored: sex and
\* phone are absent and the date of birth is still there.
C7_Witness ==
  /\ request.handler = "edit_patient"
  /\ request.method = "POST"
  /\ response.status = 302
  /\ LeftBlank(request.form.date_of_birth)
  /\ LeftBlank(request.form.sex)
  /\ LeftBlank(request.form.phone)
  /\ patients[request.patient_id].sex = None
  /\ patients[request.patient_id].phone = None
  /\ patients[request.patient_id].date_of_birth # None

\* The order C8 asks of the visits on the detail page: a visit may not come
\* before one of a later date, and one without a date comes after the dated.
LaterFirst(a, b) ==
  \/ b = None
  \/ a # None /\ b # None /\ ~DateLess(a[1], b[1])

\* C8: the detail page of a stored patient is rendered, whatever visits
\* add_visit stored for it, and lists them all, latest first and undated last.
C8_DetailListsVisits ==
  (request.handler = "patient_detail" /\ request.patient_id \in DOMAIN patients)
  => /\ response.status = 200
     /\ LET listed == response.body.visits IN
          /\ {listed[i] : i \in 1..Len(listed)} = ChildrenOf(visits, request.patient_id)
          /\ Len(listed) = Cardinality(ChildrenOf(visits, request.patient_id))
          /\ \A i, j \in 1..Len(listed) :
               i < j => LaterFirst(visits[listed[i]].visit_date, visits[listed[j]].visit_date)

Workers == {1, 2}

IdleThread ==
  [pc |-> "idle", handler |-> "", patient_id |-> 0, form |-> NoForm,
   loaded |-> [visits |-> {}, medications |-> {}, allergies |-> {}]]

\* The requests of the threaded workload: one text per form.
FirstPatientForm ==
  PatientForm(Some(Ada), Some(Lovelace), Some(Dob1815), Some(Female), Some(Phone))
FirstVisitForm == VisitForm(Some(Jan2024), Some(Flu), Some(Care))
FirstMedicationForm == MedicationForm(Some(Codeine), Some(Empty), None)
BlankMedicationForm == MedicationForm(Some(Blank), Some(Dose), Some(Daily))
FirstAllergyForm == AllergyForm(Some(Latex), None, Some(Empty))

ThreadRequests ==
  {<<"new_patient", 0, FirstPatientForm>>}
    \cup {<<"delete_patient", p, NoForm>> : p \in PatientIds}
    \cup {<<"add_visit", p, FirstVisitForm>> : p \in PatientIds}
    \cup {<<"add_medication", p, f>> : p \in PatientIds,
                                       f \in {FirstMedicationForm, BlankMedicationForm}}
    \cup {<<"add_allergy", p, FirstAllergyForm>> : p \in PatientIds}

\* The server hands a request to a thread.
accept(t, r) ==
  /\ threads[t].pc = "idle"
  /\ threads' = [threads EXCEPT ![t] =
                   [IdleThread EXCEPT !.pc = IF r[1] = "new_patient" THEN "commit" ELSE "lookup",
                                      !.handler = r[1], !.patient_id = r[2], !.form = r[3]]]
  /\ UNCHANGED <<store, request, response>>

\* patient = Patient.query.get_or_404(patient_id)
t_lookup(t) ==
  /\ threads[t].pc = "lookup"
  /\ threads' = [threads EXCEPT ![t] =
                   IF ~get_or_404(patients, threads[t].patient_id) THEN IdleThread
                   ELSE [@ EXCEPT !.pc = IF threads[t].handler = "delete_patient"
                                         THEN "delete" ELSE "commit"]]
  /\ UNCHANGED <<store, request, response>>

\* db.session.delete(patient): the cascade loads the patient's children.
t_session_delete(t) ==
  /\ threads[t].pc = "delete"
  /\ threads' = [threads EXCEPT ![t] =
                   [@ EXCEPT !.pc = "commit",
                             !.loaded = [visits |-> ChildrenOf(visits, threads[t].patient_id),
                                         medications |-> ChildrenOf(medications, threads[t].patient_id),
                                         allergies |-> ChildrenOf(allergies, threads[t].patient_id)]]]
  /\ UNCHANGED <<store, request, response>>

\* The rows of a table without the rows of ids.
DeleteAll(table, ids) == [i \in DOMAIN table \ ids |-> table[i]]

\* db.session.commit() of delete_patient: DELETE the loaded children and the
\* patient.  When another thread has removed one of these rows meanwhile the
\* commit either fails and rolls back, or goes on with a warning.
t_delete_commit(t) ==
  /\ threads[t].pc = "commit"
  /\ threads[t].handler = "delete_patient"
  /\ threads' = [threads EXCEPT ![t] = IdleThread]
  /\ UNCHANGED <<request, response>>
  /\ \E fails \in BOOLEAN :
       /\ fails => \/ threads[t].patient_id \notin DOMAIN patients
                   \/ ~(threads[t].loaded.visits \subseteq DOMAIN visits)
                   \/ ~(threads[t].loaded.medications \subseteq DOMAIN medications)
                   \/ ~(threads[t].loaded.allergies \subseteq DOMAIN allergies)
       /\ IF fails THEN UNCHANGED store
          ELSE /\ patients' = DeleteAll(patients, {threads[t].patient_id})
               /\ visits' = DeleteAll(visits, threads[t].loaded.visits)
               /\ medications' = DeleteAll(medications, threads[t].loaded.medications)
               /\ allergies' = DeleteAll(allergies, threads[t].loaded.allergies)

\* new_patient from its validation to db.session.commit()
t_new_patient(t) ==
  /\ threads[t].pc = "commit"
  /\ threads[t].handler = "new_patient"
  /\ threads' = [threads EXCEPT ![t] = IdleThread]
  /\ UNCHANGED <<visits, medications, allergies, request, response>>
  /\ LET form == threads[t].form
         first_name == strip(FormGet(form.first_name, <<>>))
         last_name == strip(FormGet(form.last_name, <<>>))
     IN patients' = IF NamesMissing(first_name, last_name) THEN patients
                    ELSE Insert(patients, NextId(patients),
                           Patient(first_name, last_name,
                                   parse_date(FormGet(form.date_of_birth, <<>>)),
                                   OrNone(form.sex), OrNone(form.phone)))

\* add_visit from Visit(patient=patient, ...) to db.session.commit()
t_add_visit(t) ==
  /\ threads[t].pc = "commit"
  /\ threads[t].handler = "add_visit"
  /\ threads' = [threads EXCEPT ![t] = IdleThread]
  /\ UNCHANGED <<patients, medications, allergies, request, response>>
  /\ LET form == threads[t].form IN
       visits' = Insert(visits, NextId(visits),
                   Visit(threads[t].patient_id, parse_date(FormGet(form.visit_date, <<>>)),
                         OrNone(form.reason), OrNone(form.notes)))

\* add_medication from its validation to db.session.commit()
t_add_medication(t) ==
  /\ threads[t].pc = "commit"
  /\ threads[t].handler = "add_medication"
  /\ threads' = [threads EXCEPT ![t] = IdleThread]
  /\ UNCHANGED <<patients, visits, allergies, request, response>>
  /\ LET form == threads[t].form
         name == strip(FormGet(form.name, <<>>))
     IN medications' = IF name = <<>> THEN medications
                       ELSE Insert(medications, NextId(medications),
                              Medication(threads[t].patient_id, name,
                                         OrNone(form.dosage), OrNone(form.frequency)))

\* add_allergy from its validation to db.session.commit()
t_add_allergy(t) ==
  /\ threads[t].pc = "commit"
  /\ threads[t].handler = "add_allergy"
  /\ threads' = [threads EXCEPT ![t] = IdleThread]
  /\ UNCHANGED <<patients, visits, medications, request, response>>
  /\ LET form == threads[t].form
         allergen == strip(FormGet(form.allergen, <<>>))
     IN allergies' = IF allergen = <<>> THEN allergies
                     ELSE Insert(allergies, NextId(allergies),
                            Allergy(threads[t].patient_id, allergen,
                                    OrNone(form.reaction), OrNone(form.severity)))

InitThreads ==
  /\ patients = EmptyTable
  /\ visits = EmptyTable
  /\ medications = EmptyTable
  /\ allergies = EmptyTable
  /\ request = NoRequest
  /\ response = NoResponse
  /\ threads = [t \in Workers |-> IdleThread]

NextThreads ==
  \/ \E t \in Workers, r \in ThreadRequests : accept(t, r) /\ Bounded'
  \/ \E t \in Workers : t_lookup(t) /\ Bounded'
  \/ \E t \in Workers : t_session_delete(t) /\ Bounded'
  \/ \E t \in Workers : t_delete_commit(t) /\ Bounded'
  \/ \E t \in Workers : t_new_patient(t) /\ Bounded'
  \/ \E t \in Workers : t_add_visit(t) /\ Bounded'
  \/ \E t \in Workers : t_add_medication(t) /\ Bounded'
  \/ \E t \in Workers : t_add_allergy(t) /\ Bounded'

SpecThreads == InitThreads /\ [][NextThreads]_vars

\* C9: requests do not interleave, so that an add_visit, add_medication or
\* add_allergy for a patient that overlaps the delete of that patient never
\* leaves a child row whose patient is no longer stored.
C9_OverlapLeavesNoOrphan ==
  (\A t \in Workers : threads[t].pc = "idle") =>
      /\ \A i \in DOMAIN visits : visits[i].patient_id \in DOMAIN patients
      /\ \A i \in DOMAIN medications : medications[i].patient_id \in DOMAIN patients
      /\ \A i \in DOMAIN allergies : allergies[i].patient_id \in DOMAIN patients

====
